---------------------------- MODULE Spec2Model ----------------------------
(***************************************************************************)
(* FireFoxy: the FoxyProxy configuration generator (FoxyProxyGenerator)    *)
(* and the popup controller that drives it.                                *)
(*                                                                         *)
(* A JavaScript string is a sequence of one-character strings, so that     *)
(* length, trim, concatenation, parseInt and JSON quoting are computed     *)
(* character by character.  A JavaScript value is a record                 *)
(*     [s |-> characters, t |-> type tag, n |-> number].                   *)
(***************************************************************************)
EXTENDS Integers, Sequences, FiniteSets, TLC

VARIABLES
    config,         \* FoxyProxyGenerator.config
    credentials,    \* FoxyProxyGenerator.credentials
    ret,            \* outcome of the last call made on the generator
    downloads,      \* download triggered by the last call (downloadLink.click())
    proxyGenerator, \* FireFoxyPopup.proxyGenerator: "object" or "null"
    state,          \* FireFoxyPopup.state
    ui,             \* the popup's buttons and the message it last showed
    cache,          \* CredentialService.cache
    storage,        \* browser.storage.local under CredentialService.storageKey
    awaiting,       \* handlers suspended at an await of a storage operation
    generated,      \* a Generate click produced a configuration since the popup opened
    containers,     \* browser.contextualIdentities: ids of the containers
    applied,        \* localStorage container_applied_<id>: timestamp, or NotApplied
    timers,         \* UIManager.timers: id -> <<startTime, next tick>>, or NoTimer
    list,           \* the rendered container list: items, checked boxes, timer
                    \* divs and the seconds each timer div shows
    clock,          \* Date.now() in seconds
    inflight,       \* ContainerService calls suspended at the await of their
                    \* contextualIdentities operation
    svc,            \* ContainerService.cache: containers and lastFetch
    known,          \* FireFoxyPopup.state.containers
    listeners,      \* ContainerService.listeners: the functions registered
    phase,          \* "initializing" (initialize() awaits the two loads),
                    \* "listening" (service listener registered), "closed"
    marked          \* ids marked Applied by the checkbox and not un-applied,
                    \* deleted or cleaned up since

genVars == <<config, credentials, ret, downloads>>
credVars == <<proxyGenerator, state, ui, cache, storage, awaiting, generated>>
listVars == <<containers, applied, timers, list, clock, inflight, svc, known,
              listeners, phase, marked>>
popupVars == <<credVars, listVars>>
vars == <<genVars, popupVars>>

---------------------------------------------------------------------------
(* JavaScript values *)

Str(s) == [s |-> s, t |-> "string", n |-> 0]
Num(n) == [s |-> <<>>, t |-> "number", n |-> n]
NaN == [s |-> <<>>, t |-> "NaN", n |-> 0]
Null == [s |-> <<>>, t |-> "null", n |-> 0]
Undef == [s |-> <<>>, t |-> "undefined", n |-> 0]
Bool(b) == [s |-> <<>>, t |-> "boolean", n |-> IF b THEN 1 ELSE 0]
EmptyArray == [s |-> <<>>, t |-> "array", n |-> 0]
EmptyObject == [s |-> <<>>, t |-> "object", n |-> 0]

\* ToBoolean: "", 0, NaN, null, undefined and false are falsy.
Truthy(v) ==
    CASE v.t = "string" -> Len(v.s) > 0
      [] v.t = "number" -> v.n # 0
      [] v.t = "boolean" -> v.n = 1
      [] v.t \in {"array", "object"} -> TRUE
      [] OTHER -> FALSE

---------------------------------------------------------------------------
(* Strings *)

IsWhite(c) == c = " "

RECURSIVE TrimStart(_)
TrimStart(s) ==
    IF s # <<>> /\ IsWhite(Head(s)) THEN TrimStart(Tail(s)) ELSE s

RECURSIVE TrimEnd(_)
TrimEnd(s) ==
    IF s # <<>> /\ IsWhite(s[Len(s)]) THEN TrimEnd(SubSeq(s, 1, Len(s) - 1))
    ELSE s

\* String.prototype.trim
trim(s) == TrimEnd(TrimStart(s))

Digits == <<"0", "1", "2", "3", "4", "5", "6", "7", "8", "9">>

IsDigit(c) == \E d \in 1..10 : Digits[d] = c

DigitVal(c) == (CHOOSE d \in 1..10 : Digits[d] = c) - 1

RECURSIVE NatToStr(_)
NatToStr(n) ==
    IF n < 10 THEN <<Digits[n + 1]>>
    ELSE NatToStr(n \div 10) \o <<Digits[(n % 10) + 1]>>

\* Number-to-string conversion of an integer.
NumToStr(n) == IF n < 0 THEN <<"-">> \o NatToStr(-n) ELSE NatToStr(n)

\* The ToString conversion applied by parseInt and by template literals.
JsString(v) ==
    CASE v.t = "string" -> v.s
      [] v.t = "number" -> NumToStr(v.n)
      [] v.t = "NaN" -> <<"N", "a", "N">>
      [] v.t = "null" -> <<"n", "u", "l", "l">>
      [] v.t = "undefined" -> <<"u", "n", "d", "e", "f", "i", "n", "e", "d">>
      [] v.t = "boolean" -> IF v.n = 1 THEN <<"t", "r", "u", "e">>
                            ELSE <<"f", "a", "l", "s", "e">>
      [] OTHER -> <<>>

RECURSIVE DigitPrefix(_)
DigitPrefix(s) ==
    IF s # <<>> /\ IsDigit(Head(s)) THEN <<Head(s)>> \o DigitPrefix(Tail(s))
    ELSE <<>>

RECURSIVE DigitsToNat(_, _)
DigitsToNat(s, acc) ==
    IF s = <<>> THEN acc ELSE DigitsToNat(Tail(s), acc * 10 + DigitVal(Head(s)))

\* parseInt(x, 10): skip leading white space, read an optional sign, then
\* the longest run of decimal digits; NaN when there is no digit.
parseInt(v) ==
    LET s0 == TrimStart(JsString(v))
        neg == s0 # <<>> /\ Head(s0) = "-"
        s1 == IF s0 # <<>> /\ Head(s0) \in {"-", "+"} THEN Tail(s0) ELSE s0
        ds == DigitPrefix(s1)
    IN  IF ds = <<>> THEN NaN
        ELSE Num(IF neg THEN 0 - DigitsToNat(ds, 0) ELSE DigitsToNat(ds, 0))

Min(a, b) == IF a < b THEN a ELSE b
Max(a, b) == IF a > b THEN a ELSE b

---------------------------------------------------------------------------
(* Constants of the generator *)

DefaultEndpoint ==
    <<"n", "a", ".", "p", "r", "o", "x", "y", "s", "5", ".", "n", "e", "t">>
DefaultPort == <<"6", "2", "0", "0">>
RegionUS == <<"U", "S">>
RegionUSA == <<"U", "S", "A">>

\* this.colors
colors ==
    <<"#FF5722", "#FF9800", "#FFC107", "#FFEB3B", "#CDDC39",
      "#8BC34A", "#4CAF50", "#009688", "#00BCD4", "#03A9F4",
      "#2196F3", "#3F51B5", "#1E90FF", "#FF69B4", "#FF8C00",
      "#9C27B0", "#E91E63", "#795548", "#607D8B", "#455A64">>

\* this.icons: every glyph is one character, written here by its name; the
\* tenth entry is the empty string.
icons ==
    <<<<"glowing-star">>, <<"crystal-ball">>, <<"rocket">>, <<"rainbow">>,
      <<"high-voltage">>, <<"fire">>, <<"gem">>, <<"wave">>,
      <<"orange-diamond">>, <<>>, <<"flag">>, <<"star">>,
      <<"bullseye">>, <<"palette">>, <<"circus-tent">>, <<"masks">>,
      <<"guitar">>, <<"keyboard">>, <<"trumpet">>, <<"violin">>>>

\* generateSessionId: const chars
chars ==
    <<"a", "b", "c", "d", "e", "f", "g", "h", "i", "j", "k", "l", "m", "n",
      "o", "p", "q", "r", "s", "t", "u", "v", "w", "x", "y", "z", "A", "B",
      "C", "D", "E", "F", "G", "H", "I", "J", "K", "L", "M", "N", "O", "P",
      "Q", "R", "S", "T", "U", "V", "W", "X", "Y", "Z", "0", "1", "2", "3",
      "4", "5", "6", "7", "8", "9">>

SessionIdLength == 8
MinUsernameLength == 3
MinPasswordLength == 6
DefaultProxyCount == 10
MinProxyCount == 1
MaxProxyCount == 50

S_region == <<"-", "r", "e", "g", "i", "o", "n", "-">>
S_sessid == <<"-", "s", "e", "s", "s", "i", "d", "-">>
S_sessTime ==
    <<"-", "s", "e", "s", "s", "T", "i", "m", "e", "-", "1", "2", "0">>
S_socks5 == <<"s", "o", "c", "k", "s", "5">>
S_filePrefix ==
    <<"9", "2", "2", "p", "r", "o", "x", "y", "-", "f", "o", "x", "y", "p",
      "r", "o", "x", "y", "-", "c", "o", "n", "f", "i", "g", "-">>
S_fileSuffix == <<".", "j", "s", "o", "n">>

---------------------------------------------------------------------------
(* Outcomes of a call: a returned value or a thrown Error, whose message   *)
(* is kept as the sequence of the texts it is concatenated from.           *)

Return(v) == [ok |-> TRUE, val |-> v, err |-> <<>>]
Throw(msg) == [ok |-> FALSE, val |-> Undef, err |-> msg]

E_required == <<"Username and password are required">>
E_shortUsername == <<"Username must be at least 3 characters long">>
E_shortPassword == <<"Password must be at least 6 characters long">>
E_bothRequired == <<"Both username and password are required">>
E_notJson == <<"Generated configuration is not valid JSON">>

---------------------------------------------------------------------------
(* The randomness source.  One draw fills an array of SessionIdLength      *)
(* bytes; a source is described by the bytes it returns on its k-th draw.  *)

\* crypto.getRandomValues threw instead of filling the array
Thrown == <<>>

E_random == <<"getRandomValues failed">>

RandArray(rnd, k) ==
    [j \in 1..SessionIdLength |->
        (rnd.base + rnd.step * k + rnd.spread * (j - 1)) % 256]

\* what the k-th call of generateSessionId draws: the array filled by
\* crypto.getRandomValues, which throws on its call number rnd.fail (never
\* if rnd.fail is negative), or the values of Math.random() on the fallback
\* path
Draw(secure, rnd, k) ==
    IF secure /\ rnd.fail = k THEN Thrown ELSE RandArray(rnd, k)

\* a slip: the loop stops one character short
generateSessionId_short(secure, array) ==
    [i \in 1..(SessionIdLength - 1) |->
        IF secure THEN chars[(array[i] % Len(chars)) + 1]
        ELSE chars[((array[i] * Len(chars)) \div 256) + 1]]

\* generateSessionId.  secure: crypto.getRandomValues is available and
\* array[i] % chars.length selects the character; otherwise
\* Math.floor(Math.random() * chars.length) with Math.random() = byte / 256.
generateSessionId(secure, array) ==
    [i \in 1..SessionIdLength |->
        IF secure THEN chars[(array[i] % Len(chars)) + 1]
        ELSE chars[((array[i] * Len(chars)) \div 256) + 1]]

slice2(s) == IF Len(s) > 2 THEN SubSeq(s, Len(s) - 1, Len(s)) ELSE s

padStart2(s) == IF Len(s) < 2 THEN <<"0">> \o s ELSE s

\* formatDate: YYMMDD-HHMM of a date [year, month (0..11), day, hours, minutes]
formatDate(date) ==
    slice2(NumToStr(date.year)) \o padStart2(NumToStr(date.month + 1))
        \o padStart2(NumToStr(date.day)) \o <<"-">>
        \o padStart2(NumToStr(date.hours)) \o padStart2(NumToStr(date.minutes))

---------------------------------------------------------------------------
(* Operations of FoxyProxyGenerator, as functions of the object's state    *)

\* constructor: Object.assign(defaults, config), then the region alias
constructor(cfg) ==
    [cfg EXCEPT !.region = IF cfg.region = RegionUSA THEN RegionUS ELSE @]

\* a slip: the two emptiness tests joined by && instead of ||
validateCredentials_both(cr) ==
    IF ~Truthy(cr.username) /\ ~Truthy(cr.password) THEN Throw(E_required)
    ELSE IF Len(cr.username.s) < MinUsernameLength THEN Throw(E_shortUsername)
    ELSE IF Len(cr.password.s) < MinPasswordLength THEN Throw(E_shortPassword)
    ELSE Return(Bool(TRUE))

\* a slip: <= instead of < in the test of the password length
validateCredentials_inclusive(cr) ==
    IF ~Truthy(cr.username) \/ ~Truthy(cr.password) THEN Throw(E_required)
    ELSE IF Len(cr.username.s) < MinUsernameLength THEN Throw(E_shortUsername)
    ELSE IF Len(cr.password.s) <= MinPasswordLength THEN Throw(E_shortPassword)
    ELSE Return(Bool(TRUE))

validateCredentials(cr) ==
    IF ~Truthy(cr.username) \/ ~Truthy(cr.password) THEN Throw(E_required)
    ELSE IF Len(cr.username.s) < MinUsernameLength THEN Throw(E_shortUsername)
    ELSE IF Len(cr.password.s) < MinPasswordLength THEN Throw(E_shortPassword)
    ELSE Return(Bool(TRUE))

\* a slip: the session time is left out of the username
authUsername_notime(cfg, cr, sessionId) ==
    JsString(cr.username) \o S_region \o cfg.region \o S_sessid \o sessionId

authUsername(cfg, cr, sessionId) ==
    JsString(cr.username) \o S_region \o cfg.region \o S_sessid
        \o sessionId \o S_sessTime

\* a slip: the palettes are indexed by the number shown in the title
proxyRecord_shifted(cfg, cr, index, sessionId) ==
    LET colorIndex == (index + 1) % Len(colors)
        iconIndex == (index + 1) % Len(icons)
    IN  [active |-> Bool(TRUE),
         title |-> Str(NumToStr(index + 1) \o <<" ">> \o icons[iconIndex + 1]),
         type |-> Str(S_socks5),
         hostname |-> Str(cfg.endpoint),
         port |-> parseInt(Str(cfg.port)),
         username |-> Str(authUsername(cfg, cr, sessionId)),
         password |-> cr.password,
         cc |-> Str(<<>>),
         city |-> Str(<<>>),
         color |-> Str(<<colors[colorIndex + 1]>>),
         pac |-> Str(<<>>),
         pacString |-> Str(<<>>),
         proxyDNS |-> Bool(TRUE),
         include |-> EmptyArray,
         exclude |-> EmptyArray,
         tabProxy |-> EmptyArray]

\* the object literal generateProxyConfig returns
proxyRecord(cfg, cr, index, sessionId) ==
    LET colorIndex == index % Len(colors)
        iconIndex == index % Len(icons)
    IN  [active |-> Bool(TRUE),
         title |-> Str(NumToStr(index + 1) \o <<" ">> \o icons[iconIndex + 1]),
         type |-> Str(S_socks5),
         hostname |-> Str(cfg.endpoint),
         port |-> parseInt(Str(cfg.port)),
         username |-> Str(authUsername(cfg, cr, sessionId)),
         password |-> cr.password,
         cc |-> Str(<<>>),
         city |-> Str(<<>>),
         color |-> Str(<<colors[colorIndex + 1]>>),
         pac |-> Str(<<>>),
         pacString |-> Str(<<>>),
         proxyDNS |-> Bool(TRUE),
         include |-> EmptyArray,
         exclude |-> EmptyArray,
         tabProxy |-> EmptyArray]

\* a slip: the record is built without validating the credentials first
generateProxyConfig_unchecked(cfg, cr, index, secure, array) ==
    IF secure /\ array = Thrown THEN Throw(E_random)
    ELSE Return(proxyRecord(cfg, cr, index, generateSessionId(secure, array)))

generateProxyConfig(cfg, cr, index, secure, array) ==
    LET v == validateCredentials(cr)
        sessionId == generateSessionId(secure, array)
    IN  IF ~v.ok THEN v
        ELSE IF secure /\ array = Thrown THEN Throw(E_random)
        ELSE Return(proxyRecord(cfg, cr, index, sessionId))

\* a slip: the loop bound one short of the largest count
effectiveCount_short(cfg) ==
    LET parsed == parseInt(cfg.proxyCount)
    IN  Max(MinProxyCount,
            Min(MaxProxyCount - 1,
                IF Truthy(parsed) THEN parsed.n ELSE DefaultProxyCount))

\* a slip: no default, an unparseable count is clamped like any other
effectiveCount_nodefault(cfg) ==
    LET parsed == parseInt(cfg.proxyCount)
    IN  Max(MinProxyCount,
            Min(MaxProxyCount, IF parsed.t = "number" THEN parsed.n ELSE 0))

\* Math.max(1, Math.min(50, parseInt(this.config.proxyCount, 10) || 10))
effectiveCount(cfg) ==
    LET parsed == parseInt(cfg.proxyCount)
    IN  Max(MinProxyCount,
            Min(MaxProxyCount,
                IF Truthy(parsed) THEN parsed.n ELSE DefaultProxyCount))

\* a slip: a failing record ends the loop and the records built so far are
\* returned
generateFullConfig_partial(cfg, cr, secure, rnd) ==
    LET v == validateCredentials(cr)
        proxyCount == effectiveCount(cfg)
        built == [i \in 0..(proxyCount - 1) |->
                     generateProxyConfig(cfg, cr, i, secure, Draw(secure, rnd, i))]
        failed == {i \in 0..(proxyCount - 1) : ~built[i].ok}
        done == IF failed = {} THEN proxyCount
                ELSE CHOOSE i \in failed : \A j \in failed : i <= j
    IN  IF ~v.ok THEN v
        ELSE Return(
            [mode |-> Str(cfg.endpoint \o <<":">> \o cfg.port),
             sync |-> Bool(FALSE),
             autoBackup |-> Bool(FALSE),
             passthrough |-> Str(<<>>),
             theme |-> Str(<<>>),
             container |-> EmptyObject,
             commands |-> [setProxy |-> Str(<<>>), setTabProxy |-> Str(<<>>),
                           includeHost |-> Str(<<>>), excludeHost |-> Str(<<>>)],
             data |-> [i \in 1..done |-> built[i - 1].val]])

generateFullConfig(cfg, cr, secure, rnd) ==
    LET v == validateCredentials(cr)
        proxyCount == effectiveCount(cfg)
        built == [i \in 0..(proxyCount - 1) |->
                     generateProxyConfig(cfg, cr, i, secure, Draw(secure, rnd, i))]
        failed == {i \in 0..(proxyCount - 1) : ~built[i].ok}
        first == CHOOSE i \in failed : \A j \in failed : i <= j
    IN  IF ~v.ok THEN v
        ELSE IF failed # {}
        THEN Throw(<<"Failed to generate proxy configuration ",
                     ToString(first + 1), ": ">> \o built[first].err)
        ELSE Return(
            [mode |-> Str(cfg.endpoint \o <<":">> \o cfg.port),
             sync |-> Bool(FALSE),
             autoBackup |-> Bool(FALSE),
             passthrough |-> Str(<<>>),
             theme |-> Str(<<>>),
             container |-> EmptyObject,
             commands |-> [setProxy |-> Str(<<>>), setTabProxy |-> Str(<<>>),
                           includeHost |-> Str(<<>>), excludeHost |-> Str(<<>>)],
             data |-> [i \in 1..proxyCount |-> built[i - 1].val]])

---------------------------------------------------------------------------
(* JSON.  The text JSON.stringify produces is kept as the tree of its      *)
(* members, each primitive value being the characters of its literal; the  *)
(* indentation of the pretty-printer is white space between the literals   *)
(* and is not kept.  A member whose value is undefined is omitted, which   *)
(* is the empty text here.                                                  *)

L_null == <<"n", "u", "l", "l">>
L_true == <<"t", "r", "u", "e">>
L_false == <<"f", "a", "l", "s", "e">>
L_array == <<"[", "]">>
L_object == <<"{", "}">>

RECURSIVE Escape(_)
Escape(s) ==
    IF s = <<>> THEN <<>>
    ELSE IF Head(s) \in {"\"", "\\"} THEN <<"\\", Head(s)>> \o Escape(Tail(s))
    ELSE <<Head(s)>> \o Escape(Tail(s))

RECURSIVE Unescape(_)
Unescape(s) ==
    IF s = <<>> THEN <<>>
    ELSE IF Head(s) = "\\" /\ Len(s) >= 2 THEN <<s[2]>> \o Unescape(Tail(Tail(s)))
    ELSE <<Head(s)>> \o Unescape(Tail(s))

\* The literal of a primitive value: NaN has no JSON literal and is
\* written as null.
JsonLiteral(v) ==
    CASE v.t = "string" -> <<"\"">> \o Escape(v.s) \o <<"\"">>
      [] v.t = "number" -> NumToStr(v.n)
      [] v.t = "NaN" -> L_null
      [] v.t = "null" -> L_null
      [] v.t = "boolean" -> IF v.n = 1 THEN L_true ELSE L_false
      [] v.t = "array" -> L_array
      [] v.t = "object" -> L_object
      [] OTHER -> <<>>

IsNumberLiteral(l) ==
    LET ds == IF l # <<>> /\ Head(l) = "-" THEN Tail(l) ELSE l
    IN  ds # <<>> /\ \A i \in 1..Len(ds) : IsDigit(ds[i])

RECURSIVE ClosedEscapes(_)
ClosedEscapes(s) ==
    IF s = <<>> THEN TRUE
    ELSE IF Head(s) = "\\" THEN Len(s) >= 2 /\ ClosedEscapes(Tail(Tail(s)))
    ELSE Head(s) # "\"" /\ ClosedEscapes(Tail(s))

IsStringLiteral(l) ==
    /\ Len(l) >= 2
    /\ Head(l) = "\""
    /\ l[Len(l)] = "\""
    /\ ClosedEscapes(SubSeq(l, 2, Len(l) - 1))

\* Whether JSON.parse accepts the literal (it throws a SyntaxError if not).
IsJsonLiteral(l) ==
    \/ l \in {<<>>, L_null, L_true, L_false, L_array, L_object}
    \/ IsNumberLiteral(l)
    \/ IsStringLiteral(l)

ParseLiteral(l) ==
    IF l = <<>> THEN Undef
    ELSE IF l = L_null THEN Null
    ELSE IF l = L_true THEN Bool(TRUE)
    ELSE IF l = L_false THEN Bool(FALSE)
    ELSE IF l = L_array THEN EmptyArray
    ELSE IF l = L_object THEN EmptyObject
    ELSE IF Head(l) = "\"" THEN Str(Unescape(SubSeq(l, 2, Len(l) - 1)))
    ELSE parseInt(Str(l))

TopMembers == {"mode", "sync", "autoBackup", "passthrough", "theme", "container"}

\* JSON.stringify(config, null, 2)
JSONstringify(doc) ==
    [top |-> [m \in TopMembers |-> JsonLiteral(doc[m])],
     commands |-> [m \in DOMAIN doc.commands |-> JsonLiteral(doc.commands[m])],
     data |-> [i \in 1..Len(doc.data) |->
                  [m \in DOMAIN doc.data[i] |-> JsonLiteral(doc.data[i][m])]]]

\* JSON.parse(jsonStr): the parsed document, or a thrown SyntaxError
JSONparse(text) ==
    IF /\ \A m \in DOMAIN text.top : IsJsonLiteral(text.top[m])
       /\ \A m \in DOMAIN text.commands : IsJsonLiteral(text.commands[m])
       /\ \A i \in 1..Len(text.data) :
              \A m \in DOMAIN text.data[i] : IsJsonLiteral(text.data[i][m])
    THEN Return(
        [m \in TopMembers |-> ParseLiteral(text.top[m])]
            @@ [commands |-> [m \in DOMAIN text.commands |->
                                 ParseLiteral(text.commands[m])],
                data |-> [i \in 1..Len(text.data) |->
                             [m \in DOMAIN text.data[i] |->
                                 ParseLiteral(text.data[i][m])]]])
    ELSE Throw(<<"SyntaxError">>)

\* getConfigAsJson
getConfigAsJson(cfg, cr, secure, rnd) ==
    LET g == generateFullConfig(cfg, cr, secure, rnd)
    IN  IF g.ok THEN Return(JSONstringify(g.val))
        ELSE Throw(<<"Failed to generate configuration: ">> \o g.err)

\* downloadConfig: the outcome of the call and the download it triggers
\* (downloadLink.click()), <<>> when it triggers none.
downloadConfig(cfg, cr, secure, rnd, date) ==
    LET g == generateFullConfig(cfg, cr, secure, rnd)
        jsonStr == JSONstringify(g.val)
        filename == S_filePrefix \o formatDate(date) \o S_fileSuffix
    IN  IF ~g.ok
        THEN [out |-> Throw(<<"Download failed: ">> \o g.err),
              click |-> <<>>, config |-> g]
        ELSE IF ~JSONparse(jsonStr).ok
        THEN [out |-> Throw(<<"Download failed: ">> \o E_notJson),
              click |-> <<>>, config |-> g]
        ELSE [out |-> Return([success |-> Bool(TRUE), filename |-> Str(filename)]),
              click |-> <<[text |-> jsonStr, download |-> filename]>>,
              config |-> g]

\* updateCredentials: the outcome and the credentials stored afterwards
updateCredentials(cr, username, password) ==
    IF ~Truthy(username) \/ ~Truthy(password)
    THEN [out |-> Throw(E_bothRequired), credentials |-> cr]
    ELSE [out |-> Return(Bool(TRUE)),
          credentials |-> [username |-> Str(trim(username.s)),
                           password |-> Str(trim(password.s))]]

\* clearCredentials
clearCredentials ==
    [username |-> Str(<<>>), password |-> Str(<<>>)]

getConfigInfo_leaky(cfg, cr) ==
    [endpoint |-> cfg.endpoint, port |-> cfg.port, region |-> cfg.region,
     proxyCount |-> cfg.proxyCount,
     hasCredentials |-> Bool(Truthy(cr.username) /\ Truthy(cr.password)),
     password |-> cr.password]

\* getConfigInfo
getConfigInfo(cfg, cr) ==
    [endpoint |-> cfg.endpoint, port |-> cfg.port, region |-> cfg.region,
     proxyCount |-> cfg.proxyCount,
     hasCredentials |-> Bool(Truthy(cr.username) /\ Truthy(cr.password))]

---------------------------------------------------------------------------
(* Bounds and inputs *)

MaxPad == 1          \* white space around an argument of updateCredentials
MaxUserLen == 3      \* characters of a username, padding aside
MaxPassLen == 6      \* characters of a password, padding aside
MaxIndex == 2        \* index passed to a direct generateProxyConfig call
CountBelow == 2      \* proxyCount ranges from -CountBelow ...
CountAbove == 2      \* ... to MaxProxyCount + CountAbove
MaxExportCount == 3  \* proxyCount of the configurations that are exported
MaxFailAt == 2       \* last call of crypto.getRandomValues that may throw

Rep(c, n) == [i \in 1..n |-> c]

\* lengths on both sides of a minimum length, and the empty string
LengthsAround(min, maxLen) == {0} \cup ((min - 1)..maxLen)

Padded(c, lens) ==
    {Rep(" ", l) \o Rep(c, k) \o Rep(" ", r) :
        l \in 0..MaxPad, k \in lens, r \in 0..MaxPad}

Absent == {Null, Undef}

UsernameLengths == LengthsAround(MinUsernameLength, MaxUserLen)
PasswordLengths == LengthsAround(MinPasswordLength, MaxPassLen)

UsernameArgs == Absent \cup {Str(s) : s \in Padded("a", UsernameLengths)}
PasswordArgs == Absent \cup {Str(s) : s \in Padded("p", PasswordLengths)}

\* values a caller writes into the credentials fields directly
UsernameValues == Absent \cup {Str(Rep("a", k)) : k \in UsernameLengths}
PasswordValues == Absent \cup {Str(Rep("p", k)) : k \in PasswordLengths}

ValidUsernames == {Str(Rep("a", MinUsernameLength)), Str(<<"a", "\"", "b", "\\">>)}
ValidPasswords == {Str(Rep("p", MinPasswordLength))}

CountInputs ==
    {Num(n) : n \in (0 - CountBelow)..(MaxProxyCount + CountAbove)}
        \cup {Undef, Null, NaN, Str(<<>>), Str(<<"a", "b", "c">>),
              Str(<<"7">>), Str(<<" ", "1", "2", "p", "x">>)}

PortInputs == {DefaultPort, <<"a", "b", "c">>, <<"8", "0", "a">>}
EndpointInputs == {DefaultEndpoint, <<"h", "\"", "x">>}
RegionInputs == {RegionUS, RegionUSA}

RandSources == [base : {0}, step : {0, 1, 62}, spread : {3}, fail : {-1}]

\* arrays in which every byte value occurs at every position
ByteArrays ==
    {RandArray([base |-> b, step |-> 0, spread |-> 37, fail |-> -1], 0) :
        b \in 0..255}

\* sources whose crypto.getRandomValues throws on one of the first calls
FaultSources == [base : {0}, step : {1}, spread : {3}, fail : 0..MaxFailAt]

DateInputs ==
    {[year |-> 2025, month |-> 0, day |-> 5, hours |-> 9, minutes |-> 3]}

\* configurations the generator is constructed with when the credentials
\* are the subject
CtorConfigs ==
    [endpoint : {DefaultEndpoint}, port : {DefaultPort},
     region : RegionInputs, proxyCount : {Num(2)}]

\* configurations the generator is constructed with when the batch is the
\* subject
BatchConfigs ==
    [endpoint : {DefaultEndpoint}, port : {DefaultPort},
     region : RegionInputs, proxyCount : CountInputs]

\* configurations the generator is constructed with when the export is the
\* subject
ExportConfigs ==
    [endpoint : EndpointInputs, port : PortInputs,
     region : {RegionUS}, proxyCount : {Num(n) : n \in 1..MaxExportCount}]

\* configurations the generator is constructed with when a failing
\* randomness source is the subject
FaultConfigs ==
    [endpoint : EndpointInputs, port : {DefaultPort},
     region : RegionInputs, proxyCount : {Num(n) : n \in 1..(MaxFailAt + 1)}]

---------------------------------------------------------------------------
(* State machine of one generator object.  ret records the last call: the  *)
(* method, its arguments followed by what the environment gave it (whether *)
(* crypto is available, the call of getRandomValues that throws), and the  *)
(* outcome.                                                                 *)

NoCall == Throw(<<"not called">>)

\* a stored credentials object, and null
Creds(username, password) ==
    [t |-> "object", username |-> username, password |-> password]
NoCreds == [t |-> "null"]

\* an id with no localStorage key, and one with no interval
NotApplied == -1
NoTimer == <<>>
NoText == -1

ContainerIds == {"c1", "c2"}

\* ContainerService.cache as constructed: containers null, lastFetch 0
NoCache == [containers |-> {}, valid |-> FALSE, lastFetch |-> 0]

\* no container list: nothing rendered, no timer, nothing stored
NoList ==
    /\ containers = {}
    /\ applied = [id \in ContainerIds |-> NotApplied]
    /\ timers = [id \in ContainerIds |-> NoTimer]
    /\ list = [text |-> [id \in ContainerIds |-> NoText],
               items |-> {}, checked |-> {}, timerDivs |-> {}]
    /\ clock = 0
    /\ inflight = <<>>
    /\ svc = NoCache
    /\ known = {}
    /\ listeners = {}
    /\ phase = "closed"
    /\ marked = {}

\* no popup: the generator is used on its own
NoPopup ==
    /\ proxyGenerator = "object"
    /\ state = [credentials |-> NoCreds, isGenerating |-> FALSE]
    /\ ui = [generateDisabled |-> FALSE, downloadDisabled |-> FALSE,
             message |-> <<>>]
    /\ cache = NoCreds
    /\ storage = NoCreds
    /\ awaiting = <<>>
    /\ generated = FALSE
    /\ NoList

Called(op, args, out, cfgout) ==
    [config |-> cfgout, out |-> out, op |-> op, args |-> args]

InitWith(cfgs) ==
    /\ config \in {constructor(c) : c \in cfgs}
    /\ credentials = [username |-> Str(<<>>), password |-> Str(<<>>)]
    /\ ret = Called("constructor", <<>>, Return(Undef), NoCall)
    /\ downloads = <<>>
    /\ NoPopup

UpdateCredentials(U, P) ==
    \E username \in U, password \in P :
        \E r \in {updateCredentials(credentials, username, password)} :
            /\ credentials' = r.credentials
            /\ ret' = Called("updateCredentials", <<username, password>>,
                             r.out, NoCall)
            /\ downloads' = <<>>
            /\ UNCHANGED <<config, popupVars>>

ClearCredentials ==
    /\ credentials' = clearCredentials
    /\ ret' = Called("clearCredentials", <<>>, Return(Undef), NoCall)
    /\ downloads' = <<>>
    /\ UNCHANGED <<config, popupVars>>

\* this.proxyGenerator.credentials.username = ...; ...password = ...
AssignCredentials ==
    \E username \in UsernameValues, password \in PasswordValues :
        /\ credentials' = [username |-> username, password |-> password]
        /\ ret' = Called("assign", <<username, password>>, Return(Undef), NoCall)
        /\ downloads' = <<>>
        /\ UNCHANGED <<config, popupVars>>

ValidateCredentials ==
    /\ ret' = Called("validateCredentials", <<>>,
                     validateCredentials(credentials), NoCall)
    /\ downloads' = <<>>
    /\ UNCHANGED <<config, credentials, popupVars>>

GenerateProxyConfig ==
    \E index \in 0..MaxIndex, secure \in BOOLEAN, rnd \in RandSources :
        /\ ret' = Called("generateProxyConfig", <<Num(index)>>,
                         generateProxyConfig(config, credentials, index, secure,
                                             Draw(secure, rnd, 0)),
                         NoCall)
        /\ downloads' = <<>>
        /\ UNCHANGED <<config, credentials, popupVars>>

GenerateSessionId ==
    \E secure \in BOOLEAN, array \in ByteArrays :
        /\ ret' = Called("generateSessionId", <<Bool(secure), array>>,
                         Return(Str(generateSessionId(secure, array))), NoCall)
        /\ downloads' = <<>>
        /\ UNCHANGED <<config, credentials, popupVars>>

\* a slip: a batch that fails drops the stored credentials
GenerateFullConfig_forgetful(sources) ==
    \E secure \in BOOLEAN, rnd \in sources :
        \E g \in {generateFullConfig(config, credentials, secure, rnd)} :
            /\ ret' = Called("generateFullConfig",
                             <<Bool(secure), Num(rnd.fail)>>, g, NoCall)
            /\ credentials' = IF g.ok THEN credentials ELSE clearCredentials
            /\ downloads' = <<>>
            /\ UNCHANGED <<config, popupVars>>

GenerateFullConfig(sources) ==
    \E secure \in BOOLEAN, rnd \in sources :
        /\ ret' = Called("generateFullConfig", <<Bool(secure), Num(rnd.fail)>>,
                         generateFullConfig(config, credentials, secure, rnd),
                         NoCall)
        /\ downloads' = <<>>
        /\ UNCHANGED <<config, credentials, popupVars>>

GetConfigInfo ==
    /\ ret' = Called("getConfigInfo", <<>>,
                     Return(getConfigInfo(config, credentials)), NoCall)
    /\ downloads' = <<>>
    /\ UNCHANGED <<config, credentials, popupVars>>

GetConfigAsJson ==
    \E secure \in BOOLEAN, rnd \in RandSources :
        /\ ret' = Called("getConfigAsJson", <<>>,
                         getConfigAsJson(config, credentials, secure, rnd),
                         NoCall)
        /\ downloads' = <<>>
        /\ UNCHANGED <<config, credentials, popupVars>>

DownloadConfig ==
    \E secure \in BOOLEAN, rnd \in RandSources, date \in DateInputs :
        \E r \in {downloadConfig(config, credentials, secure, rnd, date)} :
            /\ ret' = Called("downloadConfig", <<>>, r.out, r.config)
            /\ downloads' = r.click
            /\ UNCHANGED <<config, credentials, popupVars>>

Init == InitWith(CtorConfigs)

Next ==
    \/ UpdateCredentials(UsernameArgs, PasswordArgs)
    \/ ClearCredentials
    \/ AssignCredentials
    \/ ValidateCredentials
    \/ GenerateProxyConfig
    \/ GetConfigInfo

Spec == Init /\ [][Next]_vars

InitBatch == InitWith(BatchConfigs)

NextBatch ==
    \/ UpdateCredentials(ValidUsernames, ValidPasswords)
    \/ ClearCredentials
    \/ GenerateFullConfig(RandSources)

SpecBatch == InitBatch /\ [][NextBatch]_vars

InitExport == InitWith(ExportConfigs)

NextExport ==
    \/ UpdateCredentials(ValidUsernames, ValidPasswords)
    \/ ClearCredentials
    \/ GenerateFullConfig(RandSources)
    \/ GetConfigAsJson
    \/ DownloadConfig

SpecExport == InitExport /\ [][NextExport]_vars

NextToken == GenerateSessionId \/ ClearCredentials

SpecToken == Init /\ [][NextToken]_vars

InitFault == InitWith(FaultConfigs)

NextFault ==
    \/ UpdateCredentials(ValidUsernames, ValidPasswords)
    \/ ClearCredentials
    \/ GenerateFullConfig(RandSources \cup FaultSources)
    \/ GenerateProxyConfig

SpecFault == InitFault /\ [][NextFault]_vars

---------------------------------------------------------------------------
(* The popup: FireFoxyPopup with its CredentialService.  A handler runs to *)
(* its first await of a storage operation; the storage operations complete *)
(* in the order they were issued, and the rest of the handler runs when    *)
(* its operation completes.                                                *)

MaxAwaiting == 2     \* handlers suspended at an await at the same time

UsernameFields ==
    {<<>>, Rep("a", 2), <<" ">> \o Rep("a", 3) \o <<" ">>, <<"a", "<", "b">>}
PasswordFields == {<<>>, Rep("p", 5), Rep("p", 6), <<" ">> \o Rep("q", 6)}

\* what browser storage holds when the popup opens
StoredAtStart ==
    {NoCreds, Creds(Str(Rep("a", 3)), Str(Rep("q", 6))),
     Creds(Str(Rep("a", 3)), Str(Rep("q", 2)))}

\* value of the proxy-count and proxy-region selectors; Undef: no such element
CountSelectValues == {Undef, Str(<<"5">>)}
RegionSelectValues == {Undef, Str(RegionUS), Str(RegionUSA)}

\* the popup is a browser page: crypto.getRandomValues is there
PopupSecure == {TRUE}

PopupRandSources == {[base |-> 0, step |-> 1, spread |-> 3, fail |-> -1]}

M_enterBoth == <<"Please enter both username and password">>
M_saving == <<"Saving credentials...">>
M_saved == <<"Credentials saved successfully">>
M_saveFailed == <<"Failed to save credentials">>
M_loggedOut == <<"Logged out successfully">>
M_logoutFailed == <<"Failed to logout">>
M_loaded == <<"Credentials loaded successfully">>
M_noneSaved == <<"No saved credentials found">>
M_saveFirst == <<"Please save credentials first">>
M_noGenerator == <<"Proxy generator not available">>
M_generated == <<"Generated proxy configurations">>
M_noConfiguration == <<"No configuration available. Generate proxies first.">>
M_downloaded == <<"Configuration downloaded successfully">>
M_downloadFailed == <<"Failed to download configuration">>

InvalidChars == {"<", ">", "\"", "'"}

\* CredentialService.validateCredentialFormat
validateCredentialFormat(username, password) ==
    /\ Truthy(username) /\ Len(username.s) >= 3
    /\ Truthy(password) /\ Len(password.s) >= 6
    /\ \A i \in 1..Len(username.s) : username.s[i] \notin InvalidChars
    /\ \A i \in 1..Len(password.s) : password.s[i] \notin InvalidChars

Task(handler, username, password) ==
    [handler |-> handler, username |-> username, password |-> password]

Show(message) == [ui EXCEPT !.message = message]

\* constructor of FireFoxyPopup up to the first await of initialize():
\* initializeProxyGenerator, the initial state, and loadCredentials waiting
\* for browser.storage.local.get
InitPopup ==
    /\ proxyGenerator \in {"object", "null"}
    /\ config = constructor([endpoint |-> DefaultEndpoint, port |-> DefaultPort,
                             region |-> RegionUSA, proxyCount |-> Num(10)])
    /\ credentials = [username |-> Str(<<>>), password |-> Str(<<>>)]
    /\ ret = Called("constructor", <<>>, Return(Undef), NoCall)
    /\ downloads = <<>>
    /\ state = [credentials |-> NoCreds, isGenerating |-> FALSE]
    /\ ui \in [generateDisabled : {FALSE}, downloadDisabled : BOOLEAN,
               message : {<<>>}]
    /\ cache = NoCreds
    /\ storage \in StoredAtStart
    /\ awaiting = <<Task("loadCredentials", Undef, Undef)>>
    /\ generated = FALSE
    /\ NoList

\* loadCredentials after CredentialService.loadCredentials settles
LoadCredentialsResume ==
    /\ awaiting # <<>>
    /\ Head(awaiting).handler = "loadCredentials"
    /\ awaiting' = Tail(awaiting)
    /\ \E done \in BOOLEAN :
           IF done /\ storage # NoCreds
           THEN /\ cache' = storage
                /\ state' = [state EXCEPT !.credentials = storage]
                /\ ui' = Show(M_loaded)
           ELSE /\ state' = [state EXCEPT !.credentials = NoCreds]
                /\ ui' = Show(M_noneSaved)
                /\ UNCHANGED cache
    /\ downloads' = <<>>
    /\ UNCHANGED <<config, credentials, ret, proxyGenerator, storage,
                   generated, listVars>>

\* handleSaveCredentials up to the await of browser.storage.local.set
HandleSaveCredentials ==
    \E usernameField \in UsernameFields, passwordField \in PasswordFields :
        LET username == trim(usernameField)
            password == trim(passwordField)
        IN  /\ Len(awaiting) < MaxAwaiting
            /\ IF username = <<>> \/ password = <<>>
               THEN ui' = Show(M_enterBoth) /\ UNCHANGED awaiting
               ELSE IF ~validateCredentialFormat(Str(username), Str(password))
               THEN ui' = Show(M_saveFailed) /\ UNCHANGED awaiting
               ELSE /\ ui' = Show(M_saving)
                    /\ awaiting' = Append(awaiting,
                           Task("handleSaveCredentials",
                                Str(trim(username)), Str(trim(password))))
            /\ downloads' = <<>>
            /\ UNCHANGED <<config, credentials, ret, proxyGenerator, state,
                           cache, storage, generated, listVars>>

\* handleSaveCredentials after browser.storage.local.set settles
SaveCredentialsResume ==
    /\ awaiting # <<>>
    /\ Head(awaiting).handler = "handleSaveCredentials"
    /\ awaiting' = Tail(awaiting)
    /\ \E done \in BOOLEAN :
           LET saved == Creds(Head(awaiting).username, Head(awaiting).password)
           IN  IF done
               THEN /\ storage' = saved
                    /\ cache' = saved
                    /\ state' = [state EXCEPT !.credentials = saved]
                    /\ credentials' =
                           IF proxyGenerator = "object"
                           THEN [username |-> saved.username,
                                 password |-> saved.password]
                           ELSE credentials
                    /\ ui' = Show(M_saved)
               ELSE /\ ui' = Show(M_saveFailed)
                    /\ UNCHANGED <<storage, cache, state, credentials>>
    /\ downloads' = <<>>
    /\ UNCHANGED <<config, ret, proxyGenerator, generated, listVars>>

\* handleLogout up to the await of browser.storage.local.remove
HandleLogout ==
    /\ Len(awaiting) < MaxAwaiting
    /\ awaiting' = Append(awaiting, Task("handleLogout", Undef, Undef))
    /\ downloads' = <<>>
    /\ UNCHANGED <<config, credentials, ret, proxyGenerator, state, ui,
                   cache, storage, generated, listVars>>

\* a slip: the logout leaves the generator's credentials in place
LogoutResume_keeps ==
    /\ awaiting # <<>>
    /\ Head(awaiting).handler = "handleLogout"
    /\ awaiting' = Tail(awaiting)
    /\ \E done \in BOOLEAN :
           IF done
           THEN /\ storage' = NoCreds
                /\ cache' = NoCreds
                /\ state' = [state EXCEPT !.credentials = NoCreds]
                /\ ui' = Show(M_loggedOut)
           ELSE /\ ui' = Show(M_logoutFailed)
                /\ UNCHANGED <<storage, cache, state>>
    /\ downloads' = <<>>
    /\ UNCHANGED <<config, credentials, ret, proxyGenerator, generated, listVars>>

\* handleLogout after browser.storage.local.remove settles
LogoutResume ==
    /\ awaiting # <<>>
    /\ Head(awaiting).handler = "handleLogout"
    /\ awaiting' = Tail(awaiting)
    /\ \E done \in BOOLEAN :
           IF done
           THEN /\ storage' = NoCreds
                /\ cache' = NoCreds
                /\ state' = [state EXCEPT !.credentials = NoCreds]
                /\ credentials' =
                       IF proxyGenerator = "object" THEN clearCredentials
                       ELSE credentials
                /\ ui' = Show(M_loggedOut)
           ELSE /\ ui' = Show(M_logoutFailed)
                /\ UNCHANGED <<storage, cache, state, credentials>>
    /\ downloads' = <<>>
    /\ UNCHANGED <<config, ret, proxyGenerator, generated, listVars>>

\* entry of the try block: isGenerating = true, generateBtn.disabled = true
generateBegin(st, u) ==
    [state |-> [st EXCEPT !.isGenerating = TRUE],
     ui |-> [u EXCEPT !.generateDisabled = TRUE]]

generateEnd_none(st, u) ==
    [state |-> st, ui |-> u]

\* the finally block: isGenerating = false, generateBtn.disabled = false
generateEnd(st, u) ==
    [state |-> [st EXCEPT !.isGenerating = FALSE],
     ui |-> [u EXCEPT !.generateDisabled = FALSE]]

\* the try block after the generator was configured, g being what
\* generateFullConfig gave: the message, the download button, then finally
generateTry(st, cfg, cr, args, g) ==
    [state |-> generateEnd(generateBegin(st, ui).state,
                           generateBegin(st, ui).ui).state,
     ui |-> generateEnd(
                generateBegin(st, ui).state,
                IF g.ok
                THEN [generateBegin(st, ui).ui EXCEPT !.downloadDisabled = FALSE,
                                                      !.message = M_generated]
                ELSE [generateBegin(st, ui).ui EXCEPT !.message = g.err]).ui,
     config |-> cfg,
     credentials |-> cr,
     ret |-> Called("generateFullConfig", args, g, NoCall),
     ok |-> g.ok]

\* the returns before the try block: nothing but the message changes
generateRefused(st, u) ==
    [state |-> st, ui |-> u, config |-> config, credentials |-> credentials,
     ret |-> ret, ok |-> FALSE]

\* handleGenerateProxies run on popup state st
handleGenerateProxies(st, countValue, regionValue, secure, rnd) ==
    LET proxyCount == IF countValue = Undef THEN Num(10)
                      ELSE parseInt(countValue)
        region == IF regionValue = Undef THEN RegionUS ELSE regionValue.s
        cfg == [config EXCEPT !.proxyCount = proxyCount, !.region = region]
        cr == [username |-> st.credentials.username,
               password |-> st.credentials.password]
    IN  IF st.isGenerating THEN generateRefused(st, ui)
        ELSE IF st.credentials = NoCreds
        THEN generateRefused(st, Show(M_saveFirst))
        ELSE IF proxyGenerator = "null"
        THEN generateRefused(st, Show(M_noGenerator))
        ELSE generateTry(st, cfg, cr, <<Bool(secure), Num(rnd.fail)>>,
                         generateFullConfig(cfg, cr, secure, rnd))

\* a click on generate-proxies-btn; the handler contains no await and runs
\* to its end
HandleGenerateProxies ==
    \E countValue \in CountSelectValues, regionValue \in RegionSelectValues,
       secure \in PopupSecure, rnd \in PopupRandSources :
        \E r \in {handleGenerateProxies(state, countValue, regionValue,
                                        secure, rnd)} :
            /\ ~ui.generateDisabled
            /\ state' = r.state
            /\ ui' = r.ui
            /\ config' = r.config
            /\ credentials' = r.credentials
            /\ ret' = r.ret
            /\ generated' = (generated \/ r.ok)
            /\ downloads' = <<>>
            /\ UNCHANGED <<proxyGenerator, cache, storage, awaiting, listVars>>

\* a click on download-config-btn: handleDownloadConfig
HandleDownloadConfig ==
    \E secure \in PopupSecure, rnd \in PopupRandSources, date \in DateInputs :
        /\ ~ui.downloadDisabled
        /\ IF proxyGenerator = "null"
           THEN /\ ui' = Show(M_noConfiguration)
                /\ downloads' = <<>>
                /\ UNCHANGED ret
           ELSE \E r \in {downloadConfig(config, credentials, secure, rnd, date)} :
                    /\ ret' = Called("downloadConfig", <<>>, r.out, r.config)
                    /\ downloads' = r.click
                    /\ ui' = Show(IF r.out.ok THEN M_downloaded
                                  ELSE M_downloadFailed)
        /\ UNCHANGED <<config, credentials, proxyGenerator, state, cache,
                       storage, awaiting, generated, listVars>>

NextPopup ==
    \/ LoadCredentialsResume
    \/ HandleSaveCredentials
    \/ SaveCredentialsResume
    \/ HandleLogout
    \/ LogoutResume
    \/ HandleGenerateProxies
    \/ HandleDownloadConfig

SpecPopup == InitPopup /\ [][NextPopup]_vars

---------------------------------------------------------------------------
(* CredentialService on its own: calls of saveCredentials, loadCredentials *)
(* and clearCredentials made while earlier ones are suspended at their     *)
(* await.  The storage operations of suspended calls complete in any       *)
(* order, each succeeding or failing, and the suspended calls continue in  *)
(* the order in which their operations completed.                          *)

MaxCalls == 3        \* service calls suspended at the same time

\* a call suspended at its await: settled is "no" until its storage
\* operation completed ("ok" or "failed"), data is what storage.local.get gave
Suspended(method, username, password, settled, data) ==
    [handler |-> method, username |-> username, password |-> password,
     settled |-> settled, data |-> data]

ServiceUsernames == {Undef, Str(Rep("a", 3)), Str(Rep("b", 2))}
ServicePasswords == {Str(<<>>), Str(Rep("p", 6)), Str(Rep("q", 6))}

E_invalidFormat == <<"Invalid credential format">>
E_saveFailed == <<"Failed to save credentials. Please try again.">>
E_storage == <<"storage error">>

\* the queue without its i-th call
Without(q, i) == SubSeq(q, 1, i - 1) \o SubSeq(q, i + 1, Len(q))

\* call t put behind the calls of q whose operation has completed
SettledBehind(q, t) ==
    SubSeq(q, 1, Cardinality({i \in 1..Len(q) : q[i].settled # "no"}))
        \o <<t>>
        \o SubSeq(q, Cardinality({i \in 1..Len(q) : q[i].settled # "no"}) + 1,
                  Len(q))

\* saveCredentials after the await: the cache
saveCredentials_eager(c, t) == Creds(t.username, t.password)

saveCredentials(c, t) ==
    IF t.settled = "ok" THEN Creds(t.username, t.password) ELSE c

\* loadCredentials after the await: the cache
loadCredentials(c, t) ==
    IF t.settled = "ok" /\ t.data # NoCreds THEN t.data ELSE c

\* the service was constructed; storage holds what an earlier session left
InitService ==
    /\ config = constructor([endpoint |-> DefaultEndpoint, port |-> DefaultPort,
                             region |-> RegionUSA, proxyCount |-> Num(10)])
    /\ credentials = [username |-> Str(<<>>), password |-> Str(<<>>)]
    /\ ret = Called("constructor", <<>>, Return(Undef), NoCall)
    /\ downloads = <<>>
    /\ proxyGenerator = "object"
    /\ state = [credentials |-> NoCreds, isGenerating |-> FALSE]
    /\ ui = [generateDisabled |-> FALSE, downloadDisabled |-> FALSE,
             message |-> <<>>]
    /\ cache = NoCreds
    /\ storage \in StoredAtStart
    /\ awaiting = <<>>
    /\ generated = FALSE
    /\ NoList

\* saveCredentials up to the await of browser.storage.local.set
CallSaveCredentials ==
    \E username \in ServiceUsernames, password \in ServicePasswords :
        /\ Len(awaiting) < MaxCalls
        /\ IF ~Truthy(username) \/ ~Truthy(password)
           THEN /\ ret' = Called("saveCredentials", <<username, password>>,
                                 Throw(E_required), NoCall)
                /\ UNCHANGED awaiting
           ELSE IF ~validateCredentialFormat(username, password)
           THEN /\ ret' = Called("saveCredentials", <<username, password>>,
                                 Throw(E_invalidFormat), NoCall)
                /\ UNCHANGED awaiting
           ELSE /\ awaiting' = Append(awaiting,
                       Suspended("saveCredentials", Str(trim(username.s)),
                                 Str(trim(password.s)), "no", NoCreds))
                /\ UNCHANGED ret
        /\ UNCHANGED <<config, credentials, downloads, proxyGenerator, state,
                       ui, cache, storage, generated, listVars>>

\* loadCredentials up to the await of browser.storage.local.get, or to its
\* return if the cache is set
CallLoadCredentials ==
    /\ Len(awaiting) < MaxCalls
    /\ IF cache # NoCreds
       THEN /\ ret' = Called("loadCredentials", <<>>, Return(cache), NoCall)
            /\ UNCHANGED awaiting
       ELSE /\ awaiting' = Append(awaiting,
                   Suspended("loadCredentials", Undef, Undef, "no", NoCreds))
            /\ UNCHANGED ret
    /\ UNCHANGED <<config, credentials, downloads, proxyGenerator, state, ui,
                   cache, storage, generated, listVars>>

\* clearCredentials up to the await of browser.storage.local.remove
CallClearCredentials ==
    /\ Len(awaiting) < MaxCalls
    /\ awaiting' = Append(awaiting,
           Suspended("clearCredentials", Undef, Undef, "no", NoCreds))
    /\ UNCHANGED <<config, credentials, ret, downloads, proxyGenerator, state,
                   ui, cache, storage, generated, listVars>>

\* the storage operation of a suspended call completes
StorageSettles ==
    \E i \in 1..Len(awaiting), done \in BOOLEAN :
        /\ awaiting[i].settled = "no"
        /\ storage' =
               IF ~done THEN storage
               ELSE IF awaiting[i].handler = "saveCredentials"
               THEN Creds(awaiting[i].username, awaiting[i].password)
               ELSE IF awaiting[i].handler = "clearCredentials" THEN NoCreds
               ELSE storage
        /\ awaiting' = SettledBehind(
               Without(awaiting, i),
               [awaiting[i] EXCEPT !.settled = IF done THEN "ok" ELSE "failed",
                                   !.data = IF done THEN storage ELSE NoCreds])
        /\ UNCHANGED <<config, credentials, ret, downloads, proxyGenerator,
                       state, ui, cache, generated, listVars>>

\* the call whose operation completed first continues after its await and
\* returns or throws
ServiceResumes ==
    /\ awaiting # <<>>
    /\ Head(awaiting).settled # "no"
    /\ awaiting' = Tail(awaiting)
    /\ \E t \in {Head(awaiting)} :
           CASE t.handler = "saveCredentials" ->
                    /\ cache' = saveCredentials(cache, t)
                    /\ ret' = Called("saveCredentials",
                                     <<t.username, t.password>>,
                                     IF t.settled = "ok" THEN Return(Bool(TRUE))
                                     ELSE Throw(E_saveFailed), NoCall)
             [] t.handler = "loadCredentials" ->
                    /\ cache' = loadCredentials(cache, t)
                    /\ ret' = Called("loadCredentials", <<>>,
                                     IF t.settled = "ok" /\ t.data # NoCreds
                                     THEN Return(loadCredentials(cache, t))
                                     ELSE Return(Null), NoCall)
             [] t.handler = "clearCredentials" ->
                    /\ cache' = IF t.settled = "ok" THEN NoCreds ELSE cache
                    /\ ret' = Called("clearCredentials", <<>>,
                                     IF t.settled = "ok" THEN Return(Bool(TRUE))
                                     ELSE Throw(E_storage), NoCall)
    /\ UNCHANGED <<config, credentials, downloads, proxyGenerator, state, ui,
                   storage, generated, listVars>>

NextService ==
    \/ CallSaveCredentials
    \/ CallLoadCredentials
    \/ CallClearCredentials
    \/ StorageSettles
    \/ ServiceResumes

SpecService == InitService /\ [][NextService]_vars

---------------------------------------------------------------------------
(* The container list of the popup: ContainerService, the list rendered by *)
(* UIManager and its per-second timers.  Time is counted in seconds; an    *)
(* interval callback that is due runs before the clock moves on.  A call   *)
(* of ContainerService runs to its await of a contextualIdentities         *)
(* operation; the operations of suspended calls complete in any order,     *)
(* each succeeding or failing, and the suspended calls continue in the     *)
(* order in which their operations completed.                              *)

MaxClock == 2        \* seconds the popup stays open
MaxInflight == 2     \* ContainerService calls suspended at the same time

\* timestamp of a status stored by an earlier session
StoredStamp == 0

\* ContainerService.cache.cacheDuration, in seconds
CacheDuration == 5

\* the one function addEventListener is given by initialize(), and the one
\* cleanup() makes for removeEventListener: each bind() gives a new function
BoundAtInitialize == "handleContainerEvent.bind(this) in initialize"
BoundAtCleanup == "handleContainerEvent.bind(this) in cleanup"

\* a ContainerService call suspended at its await: the method, its container
\* id, Date.now() when getContainers was entered, whether the browser
\* operation has completed ("no", "ok", "failed") and its result
InFlight(method, id, at, settled, data) ==
    [data |-> data, id |-> id, handler |-> method, settled |-> settled,
     at |-> at]

\* getContainers: the cached list is returned
cacheValid(c, now) ==
    IF c.valid THEN now - c.lastFetch < CacheDuration ELSE FALSE

\* getContainers after contextualIdentities.query: the cache
getContainers_cache(c, t) ==
    IF t.settled = "ok"
    THEN [containers |-> t.data, valid |-> TRUE, lastFetch |-> t.at]
    ELSE c

\* getContainers after contextualIdentities.query: the list returned
getContainers(c, t) ==
    IF t.settled = "ok" THEN t.data
    ELSE IF c.valid THEN c.containers ELSE {}

\* createContainer, updateContainer, deleteContainer, clearCache:
\* this.cache.containers = null
clearCache_keeps(c) == c

clearCache(c) == [c EXCEPT !.valid = FALSE, !.containers = {}]

\* notifyListeners of containerCreated, containerUpdated, containerDeleted,
\* the cache being null: every registered handleContainerEvent calls
\* loadContainers, which is suspended in getContainers at its query
notifyListeners(q) ==
    IF listeners = {} THEN q
    ELSE Append(q, InFlight("loadContainers", "", clock, "no", {}))

\* loadContainers: the ids of ids for which getAppliedStatus gives a status
appliedStatuses(ids) == {id \in ids : applied[id] # NotApplied}

\* updateContainerList: appliedStatuses[container.cookieStoreId]
appliedData(statuses, id) == IF id \in statuses THEN "object" ELSE "undefined"

\* UIManager.stopTimer
stopTimer(t, id) == [t EXCEPT ![id] = NoTimer]

\* UIManager.startTimer: stopTimer, then setInterval(callback, 1000)
startTimer(t, id, startTime) ==
    [stopTimer(t, id) EXCEPT ![id] = <<startTime, clock + 1>>]

\* UIManager.updateContainerList with createContainerElement: the list is
\* emptied and one item is built per container; isApplied is
\* appliedData !== null, and the timer div is built if isApplied && appliedData
updateContainerList(ids, statuses) ==
    [text |-> [id \in ContainerIds |->
                  IF id \in ids /\ appliedData(statuses, id) = "object"
                  THEN clock - applied[id] ELSE NoText],
     items |-> ids,
     checked |-> {id \in ids : appliedData(statuses, id) # "null"},
     timerDivs |-> {id \in ids : /\ appliedData(statuses, id) # "null"
                                 /\ appliedData(statuses, id) = "object"}]

\* the popup was constructed: initialize() has set up the DOM listeners and
\* awaits loadCredentials and loadContainers, which is suspended in
\* getContainers at its query
InitList ==
    /\ config = constructor([endpoint |-> DefaultEndpoint, port |-> DefaultPort,
                             region |-> RegionUSA, proxyCount |-> Num(10)])
    /\ credentials = [username |-> Str(<<>>), password |-> Str(<<>>)]
    /\ ret = Called("constructor", <<>>, Return(Undef), NoCall)
    /\ downloads = <<>>
    /\ proxyGenerator = "object"
    /\ state = [credentials |-> NoCreds, isGenerating |-> FALSE]
    /\ ui = [generateDisabled |-> FALSE, downloadDisabled |-> FALSE,
             message |-> <<>>]
    /\ cache = NoCreds
    /\ storage = NoCreds
    /\ awaiting = <<>>
    /\ generated = FALSE
    /\ containers \in SUBSET ContainerIds
    /\ applied \in [ContainerIds -> {NotApplied, StoredStamp}]
    /\ timers = [id \in ContainerIds |-> NoTimer]
    /\ list = [text |-> [id \in ContainerIds |-> NoText],
               items |-> {}, checked |-> {}, timerDivs |-> {}]
    /\ clock = StoredStamp + 1
    /\ inflight = <<InFlight("loadContainers", "", StoredStamp + 1, "no", {})>>
    /\ svc = NoCache
    /\ known = {}
    /\ listeners = {}
    /\ phase = "initializing"
    /\ marked = {}

\* the contextualIdentities operation of a suspended call completes: a query
\* gives the containers there are, create adds one under an id the browser
\* chooses, update renames and remove removes the container if there is one
\* of that id; any operation may fail, and then changes nothing.  A
\* container is known by its cookieStoreId: its name, colour and icon are
\* not kept
BrowserSettles ==
    \E i \in 1..Len(inflight), done \in BOOLEAN, chosen \in ContainerIds :
        /\ phase # "closed"
        /\ inflight[i].settled = "no"
        /\ \E t \in {inflight[i]} :
           /\ IF ~done
              THEN /\ chosen = CHOOSE id \in ContainerIds : TRUE
                   /\ inflight' = SettledBehind(Without(inflight, i),
                                      [t EXCEPT !.settled = "failed"])
                   /\ UNCHANGED containers
              ELSE IF t.handler \in {"loadContainers", "openInContainer"}
              THEN /\ chosen = CHOOSE id \in ContainerIds : TRUE
                   /\ inflight' = SettledBehind(Without(inflight, i),
                                      [t EXCEPT !.settled = "ok",
                                                !.data = containers])
                   /\ UNCHANGED containers
              ELSE IF t.handler = "createContainer"
              THEN /\ chosen \notin containers
                   /\ inflight' = SettledBehind(Without(inflight, i),
                                      [t EXCEPT !.settled = "ok",
                                                !.id = chosen])
                   /\ containers' = containers \cup {chosen}
              ELSE /\ chosen = t.id
                   /\ chosen \in containers
                   /\ inflight' = SettledBehind(Without(inflight, i),
                                      [t EXCEPT !.settled = "ok"])
                   /\ containers' = IF t.handler = "updateContainer"
                                     THEN containers
                                     ELSE containers \ {chosen}
    /\ UNCHANGED <<genVars, credVars, applied, timers, list, clock, svc, known,
                   listeners, phase, marked>>

\* the call at the head of the queue continues after its await; nothing of
\* the page runs once it is unloaded
Resuming(method) ==
    IF phase = "closed" \/ inflight = <<>> THEN FALSE
    ELSE inflight[1].handler = method /\ inflight[1].settled # "no"

\* loadContainers after getContainers returns: state.containers is set, the
\* list is rendered and a timer is started for every container that has a
\* status
LoadContainersResume ==
    /\ Resuming("loadContainers")
    /\ inflight' = Tail(inflight)
    /\ svc' = getContainers_cache(svc, inflight[1])
    /\ \E cs \in {getContainers(svc, inflight[1])} :
        /\ known' = cs
        /\ list' = updateContainerList(cs, appliedStatuses(cs))
        /\ timers' = [id \in ContainerIds |->
                         IF id \in appliedStatuses(cs)
                         THEN startTimer(timers, id, applied[id])[id]
                         ELSE timers[id]]
    /\ UNCHANGED <<genVars, credVars, containers, applied, clock, listeners,
                   phase, marked>>

\* initialize() after both loads: containerService.addEventListener
RegisterListener ==
    /\ phase = "initializing"
    /\ \A i \in 1..Len(inflight) : inflight[i].handler # "loadContainers"
    /\ phase' = "listening"
    /\ listeners' = listeners \cup {BoundAtInitialize}
    /\ UNCHANGED <<genVars, credVars, containers, applied, timers, list, clock,
                   inflight, svc, known, marked>>

\* a change event of the Applied checkbox of item id: handleAppliedToggle,
\* ContainerService.setAppliedStatus, and handleContainerEvent if the
\* listener is registered
HandleAppliedToggle(id) ==
    /\ phase # "closed"
    /\ id \in list.items
    /\ LET isApplied == id \notin list.checked
       IN  /\ list' = [list EXCEPT !.checked = IF isApplied THEN @ \cup {id}
                                               ELSE @ \ {id}]
           /\ applied' = [applied EXCEPT ![id] = IF isApplied THEN clock
                                                 ELSE NotApplied]
           /\ timers' = IF listeners = {} THEN timers
                        ELSE IF isApplied THEN startTimer(timers, id, clock)
                        ELSE stopTimer(timers, id)
           /\ marked' = IF isApplied THEN marked \cup {id} ELSE marked \ {id}
    /\ UNCHANGED <<genVars, credVars, containers, clock, inflight, svc, known,
                   listeners, phase>>

\* the interval of id has a callback to run now
Due(id) == IF timers[id] = NoTimer THEN FALSE ELSE timers[id][2] = clock

\* the interval callback of the timer of id
TimerTick(id) ==
    /\ phase # "closed"
    /\ Due(id)
    /\ IF id \in list.timerDivs
       THEN /\ list' = [list EXCEPT !.text[id] = clock - timers[id][1]]
            /\ timers' = [timers EXCEPT ![id] = <<@[1], clock + 1>>]
       ELSE /\ timers' = stopTimer(timers, id)
            /\ UNCHANGED list
    /\ UNCHANGED <<genVars, credVars, containers, applied, clock, inflight,
                   svc, known, listeners, phase, marked>>

\* one second passes
Second ==
    /\ clock < MaxClock
    /\ \A id \in ContainerIds : ~Due(id)
    /\ clock' = clock + 1
    /\ UNCHANGED <<genVars, credVars, containers, applied, timers, list,
                   inflight, svc, known, listeners, phase, marked>>

\* handleNewContainer: the prompt gives a name and createContainer is
\* suspended at contextualIdentities.create
HandleNewContainer ==
    /\ phase # "closed"
    /\ Len(inflight) < MaxInflight
    /\ inflight' = Append(inflight,
                       InFlight("createContainer", "", 0, "no", {}))
    /\ UNCHANGED <<genVars, credVars, containers, applied, timers, list, clock,
                   svc, known, listeners, phase, marked>>

\* createContainer after its await: the cache is dropped and
\* containerCreated is notified; a failure is thrown to handleNewContainer
CreateContainerResume ==
    /\ Resuming("createContainer")
    /\ IF inflight[1].settled = "ok"
       THEN /\ svc' = clearCache(svc)
            /\ inflight' = notifyListeners(Tail(inflight))
       ELSE /\ inflight' = Tail(inflight)
            /\ UNCHANGED svc
    /\ UNCHANGED <<genVars, credVars, containers, applied, timers, list, clock,
                   known, listeners, phase, marked>>

\* the Rename button of item id: handleRenameContainer finds the container in
\* state.containers, the prompt gives another name and updateContainer is
\* suspended at contextualIdentities.update
HandleRenameContainer(id) ==
    /\ phase # "closed"
    /\ id \in list.items
    /\ id \in known
    /\ Len(inflight) < MaxInflight
    /\ inflight' = Append(inflight,
                       InFlight("updateContainer", id, 0, "no", {}))
    /\ UNCHANGED <<genVars, credVars, containers, applied, timers, list, clock,
                   svc, known, listeners, phase, marked>>

\* updateContainer after its await: the cache is dropped and
\* containerUpdated is notified; a failure is thrown to handleRenameContainer
UpdateContainerResume ==
    /\ Resuming("updateContainer")
    /\ IF inflight[1].settled = "ok"
       THEN /\ svc' = clearCache(svc)
            /\ inflight' = notifyListeners(Tail(inflight))
       ELSE /\ inflight' = Tail(inflight)
            /\ UNCHANGED svc
    /\ UNCHANGED <<genVars, credVars, containers, applied, timers, list, clock,
                   known, listeners, phase, marked>>

\* the Delete button of item id: handleDeleteContainer finds the container in
\* state.containers, the confirm is accepted and deleteContainer is suspended
\* at contextualIdentities.remove
HandleDeleteContainer(id) ==
    /\ phase # "closed"
    /\ id \in list.items
    /\ id \in known
    /\ Len(inflight) < MaxInflight
    /\ inflight' = Append(inflight,
                       InFlight("deleteContainer", id, 0, "no", {}))
    /\ UNCHANGED <<genVars, credVars, containers, applied, timers, list, clock,
                   svc, known, listeners, phase, marked>>

\* deleteContainer after its await: the status of the container is removed,
\* the cache is dropped and containerDeleted is notified; a failure is thrown
\* to the handler
DeleteContainerResume ==
    /\ Resuming("deleteContainer")
    /\ IF inflight[1].settled = "ok"
       THEN /\ applied' = [applied EXCEPT ![inflight[1].id] = NotApplied]
            /\ svc' = clearCache(svc)
            /\ inflight' = notifyListeners(Tail(inflight))
            /\ marked' = marked \ {inflight[1].id}
       ELSE /\ inflight' = Tail(inflight)
            /\ UNCHANGED <<applied, svc, marked>>
    /\ UNCHANGED <<genVars, credVars, containers, timers, list, clock, known,
                   listeners, phase>>

\* the calls of deleteContainer that handleDeleteAllContainers makes, one for
\* each container of state.containers
deleteAll(ids) ==
    [i \in 1..Len(SelectSeq(<<"c1", "c2">>, LAMBDA id : id \in ids)) |->
        InFlight("deleteContainer",
                 SelectSeq(<<"c1", "c2">>, LAMBDA id : id \in ids)[i],
                 0, "no", {})]

\* handleDeleteAllContainers, the confirm being accepted:
\* clearAllAppliedStatuses, then deleteContainer for every container of
\* state.containers, all awaited together
HandleDeleteAllContainers ==
    /\ phase # "closed"
    /\ Len(inflight) + Cardinality(known) <= MaxInflight
    /\ applied' = [id \in ContainerIds |-> NotApplied]
    /\ inflight' = inflight \o deleteAll(known)
    /\ marked' = {}
    /\ UNCHANGED <<genVars, credVars, containers, timers, list, clock, svc,
                   known, listeners, phase>>

\* the Open button of item id: handleContainerAction with openInContainer,
\* whose getContainers returns the cached list or is suspended at its query
HandleOpenTab(id) ==
    /\ phase # "closed"
    /\ id \in list.items
    /\ IF cacheValid(svc, clock)
       THEN UNCHANGED inflight
       ELSE /\ Len(inflight) < MaxInflight
            /\ inflight' = Append(inflight,
                               InFlight("openInContainer", id, clock, "no", {}))
    /\ UNCHANGED <<genVars, credVars, containers, applied, timers, list, clock,
                   svc, known, listeners, phase, marked>>

\* openInContainer after getContainers returns
OpenInContainerResume ==
    /\ Resuming("openInContainer")
    /\ inflight' = Tail(inflight)
    /\ svc' = getContainers_cache(svc, inflight[1])
    /\ UNCHANGED <<genVars, credVars, containers, applied, timers, list, clock,
                   known, listeners, phase, marked>>

\* beforeunload: FireFoxyPopup.cleanup with UIManager.cleanup, and
\* removeEventListener of a newly bound function
Cleanup ==
    /\ phase # "closed"
    /\ phase' = "closed"
    /\ timers' = [id \in ContainerIds |-> NoTimer]
    /\ listeners' = listeners \ {BoundAtCleanup}
    /\ marked' = {}
    /\ UNCHANGED <<genVars, credVars, containers, applied, list, clock,
                   inflight, svc, known>>

\* the list with its timers while containers are created and deleted
NextList ==
    \/ BrowserSettles
    \/ LoadContainersResume
    \/ RegisterListener
    \/ \E id \in ContainerIds : HandleAppliedToggle(id)
    \/ \E id \in ContainerIds : TimerTick(id)
    \/ Second
    \/ HandleNewContainer
    \/ CreateContainerResume
    \/ \E id \in ContainerIds : HandleDeleteContainer(id)
    \/ DeleteContainerResume
    \/ Cleanup

SpecList == InitList /\ [][NextList]_vars

\* every container operation of the popup, within one second
NextContainers ==
    \/ BrowserSettles
    \/ LoadContainersResume
    \/ RegisterListener
    \/ \E id \in ContainerIds : HandleAppliedToggle(id)
    \/ HandleNewContainer
    \/ CreateContainerResume
    \/ \E id \in ContainerIds : HandleRenameContainer(id)
    \/ UpdateContainerResume
    \/ \E id \in ContainerIds : HandleDeleteContainer(id)
    \/ DeleteContainerResume
    \/ HandleDeleteAllContainers
    \/ \E id \in ContainerIds : HandleOpenTab(id)
    \/ OpenInContainerResume
    \/ Cleanup

SpecContainers == InitList /\ [][NextContainers]_vars

\* the calls of ContainerService that query or change the containers
NextCache ==
    \/ BrowserSettles
    \/ LoadContainersResume
    \/ RegisterListener
    \/ HandleNewContainer
    \/ CreateContainerResume
    \/ \E id \in ContainerIds : HandleRenameContainer(id)
    \/ UpdateContainerResume
    \/ \E id \in ContainerIds : HandleDeleteContainer(id)
    \/ DeleteContainerResume
    \/ \E id \in ContainerIds : HandleOpenTab(id)
    \/ OpenInContainerResume

SpecCache == InitList /\ [][NextCache]_vars

---------------------------------------------------------------------------
(* Properties *)

IsNonEmptyString(v) == v.t = "string" /\ Len(v.s) > 0

ValidPair(cr) ==
    /\ IsNonEmptyString(cr.username)
    /\ IsNonEmptyString(cr.password)
    /\ Len(cr.username.s) >= 3
    /\ Len(cr.password.s) >= 6

ReturnedConfig == ret.op = "generateFullConfig" /\ ret.out.ok

IsInteger(v) == v.t = "number"

\* absent, or a value in which parseInt finds no digit
AbsentOrNonNumeric(v) ==
    \/ v.t \in {"undefined", "null", "NaN"}
    \/ v.t = "string" /\ \A i \in 1..Len(v.s) : ~IsDigit(v.s[i])

\* C1: with valid credentials and an integer proxyCount in 1..50,
\* generateFullConfig returns a document whose data has exactly proxyCount
\* records.
C1_ExactCount ==
    (/\ ret.op = "generateFullConfig"
     /\ ValidPair(credentials)
     /\ IsInteger(config.proxyCount)
     /\ config.proxyCount.n \in 1..50)
        => ret.out.ok /\ Len(ret.out.val.data) = config.proxyCount.n

C1_Witness ==
    /\ ReturnedConfig
    /\ ValidPair(credentials)
    /\ config.proxyCount = Num(50)
    /\ Len(ret.out.val.data) = 50

\* C2 as claimed: with valid credentials the effective count is 10 whenever
\* proxyCount is <= 0, absent or non-numeric, and 50 whenever it is greater
\* than 50.
C2_Original ==
    (ret.op = "generateFullConfig" /\ ValidPair(credentials))
        => /\ ret.out.ok
           /\ (IsInteger(config.proxyCount) /\ config.proxyCount.n <= 0)
                  => Len(ret.out.val.data) = 10
           /\ AbsentOrNonNumeric(config.proxyCount)
                  => Len(ret.out.val.data) = 10
           /\ (IsInteger(config.proxyCount) /\ config.proxyCount.n > 50)
                  => Len(ret.out.val.data) = 50

\* C2 as amended: with valid credentials the effective count is 10 whenever
\* proxyCount is 0, absent or non-numeric, 1 whenever it is a negative
\* integer, and 50 whenever it is greater than 50.
C2_Clamp ==
    (ret.op = "generateFullConfig" /\ ValidPair(credentials))
        => /\ ret.out.ok
           /\ config.proxyCount = Num(0) => Len(ret.out.val.data) = 10
           /\ AbsentOrNonNumeric(config.proxyCount)
                  => Len(ret.out.val.data) = 10
           /\ (IsInteger(config.proxyCount) /\ config.proxyCount.n < 0)
                  => Len(ret.out.val.data) = 1
           /\ (IsInteger(config.proxyCount) /\ config.proxyCount.n > 50)
                  => Len(ret.out.val.data) = 50

C2_Witness ==
    /\ ReturnedConfig
    /\ ValidPair(credentials)
    /\ config.proxyCount = Num(0)
    /\ Len(ret.out.val.data) = 10

\* C3: in every document generateFullConfig returns, the usernames of two
\* different records differ, whatever the randomness source returns.
C3_DistinctUsernames ==
    ReturnedConfig =>
        \A i, j \in 1..Len(ret.out.val.data) :
            i # j => ret.out.val.data[i].username # ret.out.val.data[j].username

\* C4: serializing a document generateFullConfig returned and parsing the
\* text back yields a document equal to it, field for field, the port of
\* every record included.
C4_RoundTrip ==
    ReturnedConfig =>
        JSONparse(JSONstringify(ret.out.val)) = Return(ret.out.val)

\* C5: downloadConfig hands the text to the file-save sink only if parsing
\* the text reproduces the generated document; otherwise it raises an error
\* and triggers no download.
C5_GuardedDownload ==
    ret.op = "downloadConfig" =>
        /\ downloads # <<>> =>
               JSONparse(downloads[1].text) = Return(ret.config.val)
        /\ (/\ ret.config.ok
            /\ JSONparse(JSONstringify(ret.config.val)) # Return(ret.config.val))
               => ~ret.out.ok /\ downloads = <<>>

EmptyOrAbsent(v) == v.t \in {"undefined", "null"} \/ v = Str(<<>>)

C7_Step ==
    ret'.op = "updateCredentials" =>
        LET username == ret'.args[1]
            password == ret'.args[2]
        IN  /\ (EmptyOrAbsent(username) \/ EmptyOrAbsent(password))
                   => ~ret'.out.ok /\ credentials' = credentials
            /\ ret'.out.ok
                   => /\ credentials' = [username |-> Str(trim(username.s)),
                                         password |-> Str(trim(password.s))]
                      /\ IsNonEmptyString(credentials'.username)
                      /\ IsNonEmptyString(credentials'.password)
            /\ (ret.op = "updateCredentials" /\ ret.args = ret'.args)
                   => credentials' = credentials

\* C7: updateCredentials raises an error and leaves the stored credentials
\* unchanged when an argument is empty or absent; when it succeeds the
\* stored username and password are the trimmed arguments and both are
\* non-empty; a second call with the same arguments changes nothing.
C7_UpdateCredentials == [][C7_Step]_vars

\* C8: generateProxyConfig, called directly in any state, raises an error
\* and returns no record when the stored credentials are invalid.
C8_NoRecordWithoutValidCredentials ==
    (ret.op = "generateProxyConfig" /\ ~ValidPair(credentials)) => ~ret.out.ok

C8_Witness ==
    /\ ret.op = "generateProxyConfig"
    /\ credentials.username = Str(Rep("a", 2))
    /\ Len(credentials.password.s) >= 6
    /\ ~ret.out.ok

\* C9: validateCredentials fails with the missing-credential error whenever
\* the stored username or password is empty or null, whatever the other
\* field is, and before any length check.
C9_MissingCredential ==
    (/\ ret.op = "validateCredentials"
     /\ (EmptyOrAbsent(credentials.username) \/ EmptyOrAbsent(credentials.password)))
        => ret.out = Throw(E_required)

C9_Witness ==
    /\ ret.op = "validateCredentials"
    /\ credentials.username = Str(Rep("a", 2))
    /\ credentials.password = Null
    /\ ret.out = Throw(E_required)

\* C10: with both stored credentials non-empty, validateCredentials fails
\* with a too-short error if and only if the username has fewer than 3
\* characters or the password fewer than 6, and returns true otherwise.
C10_TooShort ==
    (/\ ret.op = "validateCredentials"
     /\ IsNonEmptyString(credentials.username)
     /\ IsNonEmptyString(credentials.password))
        => IF Len(credentials.username.s) < 3 \/ Len(credentials.password.s) < 6
           THEN ~ret.out.ok /\ ret.out.err \in {E_shortUsername, E_shortPassword}
           ELSE ret.out = Return(Bool(TRUE))

C10_Witness ==
    /\ ret.op = "validateCredentials"
    /\ Len(credentials.username.s) = 3
    /\ Len(credentials.password.s) = 5
    /\ ret.out = Throw(E_shortPassword)

\* the records of the document the last call generated
GeneratedRecords ==
    IF ret.op = "generateFullConfig" /\ ret.out.ok THEN ret.out.val.data
    ELSE IF ret.op = "downloadConfig" /\ ret.config.ok THEN ret.config.val.data
    ELSE <<>>

Contains(s, part) ==
    \E k \in 1..(Len(s) - Len(part) + 1) :
        SubSeq(s, k, k + Len(part) - 1) = part

\* C6: the generator the popup constructs with region "USA" emits region
\* "US" in the username of every record it generates, those generated by
\* the Generate handler included.
C6_RegionUS ==
    \A i \in 1..Len(GeneratedRecords) :
        Contains(GeneratedRecords[i].username.s,
                 S_region \o RegionUS \o S_sessid)

\* whether the sequence s begins with the sequence part
BeginsWith(s, part) ==
    Len(s) >= Len(part) /\ SubSeq(s, 1, Len(part)) = part

\* C11: generateFullConfig returns a document with all the records of the
\* indices 0..count-1, or raises an error: it never returns fewer records
\* than the effective count, and an error raised while building record i is
\* raised again wrapped in a message that names the failing record.
C11_AllOrNothing ==
    ret.op = "generateFullConfig" =>
        LET count == config.proxyCount.n
            secure == ret.args[1] = Bool(TRUE)
            fail == ret.args[2].n
        IN  IF ~ValidPair(credentials)
            THEN ~ret.out.ok
            ELSE IF secure /\ fail \in 0..(count - 1)
            THEN /\ ~ret.out.ok
                 /\ ret.out.err =
                        <<"Failed to generate proxy configuration ",
                          ToString(fail + 1), ": ">> \o E_random
            ELSE /\ ret.out.ok
                 /\ Len(ret.out.val.data) = count
                 /\ \A i \in 1..count :
                        BeginsWith(ret.out.val.data[i].title.s, NumToStr(i))

C11_Witness ==
    /\ ret.op = "generateFullConfig"
    /\ ValidPair(credentials)
    /\ config.proxyCount = Num(3)
    /\ ret.args = <<Bool(TRUE), Num(1)>>
    /\ ~ret.out.ok
    /\ ret.out.err[2] = "2"

\* the characters a to z, A to Z and 0 to 9
Alphanumeric ==
    {"a", "b", "c", "d", "e", "f", "g", "h", "i", "j", "k", "l", "m",
     "n", "o", "p", "q", "r", "s", "t", "u", "v", "w", "x", "y", "z",
     "A", "B", "C", "D", "E", "F", "G", "H", "I", "J", "K", "L", "M",
     "N", "O", "P", "Q", "R", "S", "T", "U", "V", "W", "X", "Y", "Z",
     "0", "1", "2", "3", "4", "5", "6", "7", "8", "9"}

\* u is <username>-region-<region>-sessid-<token>-sessTime-120 with a token
\* of 8 alphanumeric characters
HasUsernameForm(u, username, region) ==
    LET prefix == username \o <<"-", "r", "e", "g", "i", "o", "n", "-">>
                      \o region \o <<"-", "s", "e", "s", "s", "i", "d", "-">>
        suffix == <<"-", "s", "e", "s", "s", "T", "i", "m", "e", "-",
                    "1", "2", "0">>
    IN  /\ Len(u) = Len(prefix) + 8 + Len(suffix)
        /\ SubSeq(u, 1, Len(prefix)) = prefix
        /\ \A i \in (Len(prefix) + 1)..(Len(prefix) + 8) : u[i] \in Alphanumeric
        /\ SubSeq(u, Len(prefix) + 9, Len(u)) = suffix

\* C12: every username generateProxyConfig produces has exactly the form
\* <stored username>-region-<config.region>-sessid-<token>-sessTime-120,
\* the token being 8 characters of [A-Za-z0-9].
C12_UsernameForm ==
    (ret.op = "generateProxyConfig" /\ ret.out.ok)
        => HasUsernameForm(ret.out.val.username.s, credentials.username.s,
                           config.region)

C12_Witness ==
    /\ ret.op = "generateProxyConfig"
    /\ ret.out.ok
    /\ ret.args = <<Num(2)>>
    /\ credentials.username = Str(<<"a", "a", "a">>)
    /\ Len(ret.out.val.username.s) = 3 + 8 + 2 + 8 + 8 + 13

\* C13: generateSessionId returns a string of exactly 8 characters, each of
\* the 62 characters a-z, A-Z, 0-9, on the path of the secure source, where
\* every byte value 0..255 selects the character number byte mod 62, and on
\* the fallback path.
C13_Token ==
    ret.op = "generateSessionId" =>
        /\ ret.out.ok
        /\ ret.out.val.t = "string"
        /\ Len(ret.out.val.s) = 8
        /\ \A i \in 1..8 : ret.out.val.s[i] \in Alphanumeric
        /\ ret.args[1] = Bool(TRUE) =>
               \A i \in 1..8 :
                   ret.out.val.s[i] = chars[(ret.args[2][i] % 62) + 1]

C13_Witness ==
    /\ ret.op = "generateSessionId"
    /\ ret.args[1] = Bool(TRUE)
    /\ ret.args[2][1] = 255
    /\ ret.out.val.s[1] = "h"
    /\ Len(ret.out.val.s) = 8

\* C14: in every document generateFullConfig returns, the record at position
\* i (counted from 0) has a title that begins with i+1 and ends with
\* icons[i mod 20], and the color colors[i mod 20]; the records are in
\* increasing order of index, without gap or repeat.
C14_OrderAndCycling ==
    ReturnedConfig =>
        \A i \in 0..(Len(ret.out.val.data) - 1) :
            LET record == ret.out.val.data[i + 1]
            IN  /\ record.title =
                       Str(NumToStr(i + 1) \o <<" ">> \o icons[(i % 20) + 1])
                /\ record.color = Str(<<colors[(i % 20) + 1]>>)

C14_Witness ==
    /\ ReturnedConfig
    /\ Len(ret.out.val.data) = 50
    /\ ret.out.val.data[21].title = Str(<<"2", "1", " ", "glowing-star">>)
    /\ ret.out.val.data[21].color = ret.out.val.data[1].color
    /\ ret.out.val.data[10].title = Str(<<"1", "0", " ">>)

\* C15: every document generateFullConfig returns has the fixed schema: mode
\* is "<endpoint>:<port>" of the template, sync and autoBackup are false,
\* and every record has type "socks5", active true, proxyDNS true, the
\* template's endpoint as hostname, the stored password as password, and a
\* port that is an integer denoting the same port as the one in mode.
C15_Schema ==
    ReturnedConfig =>
        /\ ret.out.val.mode = Str(config.endpoint \o <<":">> \o config.port)
        /\ ret.out.val.sync = Bool(FALSE)
        /\ ret.out.val.autoBackup = Bool(FALSE)
        /\ \A i \in 1..Len(ret.out.val.data) :
               LET record == ret.out.val.data[i]
               IN  /\ record.type = Str(<<"s", "o", "c", "k", "s", "5">>)
                   /\ record.active = Bool(TRUE)
                   /\ record.proxyDNS = Bool(TRUE)
                   /\ record.hostname = Str(config.endpoint)
                   /\ record.password = credentials.password
                   /\ record.port.t = "number"
                   /\ NumToStr(record.port.n) = config.port

\* C16: whenever no handler is running, and so after every return of
\* handleGenerateProxies (success, refused click, failed validation or any
\* other error from the generator), state.isGenerating is false and the
\* generate button is enabled; and the handler run on a state whose
\* isGenerating is true starts no generation and changes nothing.
C16_GenerateReturns ==
    /\ ~state.isGenerating
    /\ ~ui.generateDisabled
    /\ \A countValue \in CountSelectValues, regionValue \in RegionSelectValues,
          secure \in PopupSecure, rnd \in PopupRandSources :
           LET busy == [state EXCEPT !.isGenerating = TRUE]
               r == handleGenerateProxies(busy, countValue, regionValue,
                                          secure, rnd)
           IN  /\ ~r.ok
               /\ r.ret = ret
               /\ r.state = busy
               /\ r.ui = ui
               /\ r.config = config
               /\ r.credentials = credentials

\* a Generate click whose generation failed on the stored credentials has
\* returned, and its error is shown
C16_Witness ==
    /\ ret.op = "generateFullConfig"
    /\ ~ret.out.ok
    /\ ret.out.err = E_shortPassword
    /\ ui.message = ret.out.err
    /\ ~state.isGenerating
    /\ ~ui.generateDisabled

InfoFields == {"endpoint", "port", "region", "proxyCount", "hasCredentials"}

OtherPasswords ==
    {p \in PasswordValues \cup {Str(Rep("z", MinPasswordLength))} :
        IsNonEmptyString(p)}

\* C17: what getConfigInfo returns has the fields endpoint, port, region,
\* proxyCount and hasCredentials and no other; hasCredentials is true exactly
\* when the stored username and the stored password are both non-empty; and
\* with a non-empty password stored, the result is the one returned with any
\* other non-empty password in its place.
C17_ConfigInfo ==
    ret.op = "getConfigInfo" =>
        /\ ret.out.ok
        /\ DOMAIN ret.out.val = InfoFields
        /\ ret.out.val.endpoint = config.endpoint
        /\ ret.out.val.port = config.port
        /\ ret.out.val.region = config.region
        /\ ret.out.val.proxyCount = config.proxyCount
        /\ ret.out.val.hasCredentials =
               Bool(IsNonEmptyString(credentials.username)
                    /\ IsNonEmptyString(credentials.password))
        /\ IsNonEmptyString(credentials.password) =>
               \A p \in OtherPasswords :
                   getConfigInfo(config, [credentials EXCEPT !.password = p])
                       = ret.out.val

\* getConfigInfo was called with both credentials stored
C17_Witness ==
    /\ ret.op = "getConfigInfo"
    /\ ret.out.val.hasCredentials = Bool(TRUE)
    /\ IsNonEmptyString(credentials.password)
    /\ Cardinality(OtherPasswords \ {credentials.password}) > 1

GenerateCalls == {"generateProxyConfig", "generateFullConfig"}

\* C18: a call of generateProxyConfig or of generateFullConfig, whether it
\* returns or raises, leaves the generator's config (endpoint, port, region,
\* proxyCount) and its stored credentials as they were; the palettes colors
\* and icons are fixed values that no call writes.
C18_Frame ==
    [][ret'.op \in GenerateCalls =>
           /\ config' = config
           /\ credentials' = credentials
           /\ DOMAIN config' = {"endpoint", "port", "region", "proxyCount"}]_vars

\* generateFullConfig raised in the middle of a batch with valid credentials
\* stored and a proxyCount held as a number
C18_Witness ==
    /\ ret.op = "generateFullConfig"
    /\ ~ret.out.ok
    /\ ValidPair(credentials)
    /\ config.proxyCount = Num(MaxFailAt + 1)

\* C20: as long as no Generate click of this popup session has produced a
\* configuration, a Download click triggers no file download and is answered
\* with "No configuration available. Generate proxies first.": no download
\* is under way and neither outcome message of downloadConfig is shown.
C20_DownloadNeedsGenerate ==
    ~generated =>
        /\ downloads = <<>>
        /\ ui.message \notin {M_downloaded, M_downloadFailed}

\* C19: a container marked Applied through the checkbox of the popup has a
\* timer registered in UIManager.timers for as long as it was not un-applied
\* or deleted and the popup was not cleaned up.
C19_TimerStays ==
    \A id \in marked : timers[id] # NoTimer

\* what the generator holds for popup credentials c
GeneratorCopy(c) ==
    IF c = NoCreds THEN clearCredentials
    ELSE [username |-> c.username, password |-> c.password]

\* C25: whenever no popup handler is suspended, the credentials of the
\* generator are those of state.credentials if it is not null, and are empty
\* if it is null.
C25_GeneratorInSync ==
    (awaiting = <<>> /\ proxyGenerator = "object") =>
        credentials = GeneratorCopy(state.credentials)

\* the popup holds no credentials anywhere and its initial load has settled
Cleared ==
    /\ state.credentials = NoCreds
    /\ credentials = clearCredentials
    /\ cache = NoCreds
    /\ \A i \in 1..Len(awaiting) : awaiting[i].handler # "loadCredentials"

\* the step is the end of a logout that succeeded
LogoutCompleted ==
    /\ awaiting # <<>>
    /\ Head(awaiting).handler = "handleLogout"
    /\ awaiting' = Tail(awaiting)
    /\ ui'.message = M_loggedOut

\* the step is the end of a save that succeeded
SaveCompleted ==
    /\ awaiting # <<>>
    /\ Head(awaiting).handler = "handleSaveCredentials"
    /\ awaiting' = Tail(awaiting)
    /\ ui'.message = M_saved

\* C26: a logout that completes successfully leaves state.credentials null,
\* the generator's username and password empty and the CredentialService
\* cache null; and from then on, until a save completes, this stays so and
\* no Generate or Download click returns a document or triggers a download.
C26_LoggedOut ==
    [][/\ LogoutCompleted => Cleared'
       /\ (Cleared /\ ~SaveCompleted) =>
              /\ Cleared'
              /\ downloads' = <<>>
              /\ ret' # ret => ~ret'.out.ok]_vars

\* after a generation earlier in the session and a logout, a Generate click
\* was refused and a Download click failed
C26_Witness ==
    /\ generated
    /\ Cleared
    /\ storage = NoCreds
    /\ ui.message = M_saveFirst
    /\ ret.op = "downloadConfig"
    /\ ~ret.out.ok

\* the step is a return of loadCredentials: from the cache, or after its await
LoadReturns ==
    /\ ret'.op = "loadCredentials"
    /\ \/ awaiting' = awaiting /\ cache # NoCreds
       \/ /\ awaiting # <<>>
          /\ Head(awaiting).handler = "loadCredentials"
          /\ awaiting' = Tail(awaiting)

\* C28: when every call of saveCredentials, loadCredentials and
\* clearCredentials has completed, operations that failed included, the cache
\* is null or is the credentials object held in browser storage; and
\* loadCredentials returns no credentials while storage holds none, unless a
\* clearCredentials call is still running beside it.
C28_CacheCoherent ==
    [][/\ awaiting' = <<>> => (cache' = NoCreds \/ cache' = storage')
       /\ (LoadReturns /\ ret'.out.val # Null) =>
              \/ storage' # NoCreds
              \/ \E i \in 1..Len(awaiting) :
                     awaiting[i].handler = "clearCredentials"]_vars

\* every call has completed, the last of them a save whose storage operation
\* failed, and the cache holds the credentials an earlier save stored
C28_Witness ==
    /\ awaiting = <<>>
    /\ ret.op = "saveCredentials"
    /\ ~ret.out.ok
    /\ ret.out.err = E_saveFailed
    /\ cache # NoCreds
    /\ cache = storage
    /\ cache.password = Str(Rep("q", 6))

\* a loadContainers call continues after its await and renders the list
Rendered == Resuming("loadContainers") /\ Len(inflight') < Len(inflight)

\* C24: in the list that loadContainers has just rendered, the Applied box of
\* a container is checked if and only if a status is stored for the
\* container.
C24_CheckedIffApplied ==
    [][Rendered =>
           \A id \in list'.items :
               id \in list'.checked <=> applied'[id] # NotApplied]_vars

\* C21: once cleanup() has run, the function that initialize() registered is
\* no longer among the listeners of ContainerService.
C21_ListenerRemoved ==
    phase = "closed" => BoundAtInitialize \notin listeners

\* the user un-checks the Applied box of id
Unchecked(id) == id \in list.checked /\ id \notin list'.checked

\* deleteContainer(id) continues after contextualIdentities.remove succeeded
Deleted(id) ==
    /\ Resuming("deleteContainer")
    /\ inflight[1].id = id
    /\ inflight[1].settled = "ok"

\* C27: the stored applied status of a container is removed only by a step
\* in which the user un-checks its box or in which its deletion, having
\* succeeded, completes.
C27_StatusKept ==
    [][\A id \in ContainerIds :
           (applied[id] # NotApplied /\ applied'[id] = NotApplied) =>
               (Unchecked(id) \/ Deleted(id))]_vars

\* the suspended call of method at the head of the queue continues in this
\* step, its operation having ended as outcome
Completed(method, outcome) ==
    /\ Resuming(method)
    /\ inflight[1].settled = outcome
    /\ inflight' # inflight
    /\ Len(inflight') <= Len(inflight)
    /\ SubSeq(inflight', 1, Len(inflight) - 1) = Tail(inflight)

Mutations == {"createContainer", "updateContainer", "deleteContainer"}

\* C22: when createContainer, updateContainer or deleteContainer completes
\* successfully, getContainers no longer returns the cached list, although
\* the cache window has not passed; whenever no call is in flight, a list
\* that getContainers would return from the cache is the browser's list; and
\* when a mutation fails, the cache and the stored statuses are unchanged
\* and no listener is called (no loadContainers call is made).
C22_CacheDropped ==
    [][/\ (\E m \in Mutations : Completed(m, "ok")) =>
              ~cacheValid(svc', clock')
       /\ (inflight' = <<>> /\ cacheValid(svc', clock')) =>
              svc'.containers = containers'
       /\ (\E m \in Mutations : Completed(m, "failed")) =>
              /\ svc' = svc
              /\ applied' = applied
              /\ inflight' = Tail(inflight)
              /\ timers' = timers]_vars

\* a mutation has completed successfully inside the cache window of an
\* earlier query, and the listener's loadContainers is suspended at its query
C22_Witness ==
    /\ ~svc.valid
    /\ svc.lastFetch > 0
    /\ clock - svc.lastFetch < CacheDuration
    /\ inflight # <<>>
    /\ inflight[Len(inflight)].handler = "loadContainers"
    /\ BoundAtInitialize \in listeners

\* C23: whenever no container operation of the popup is in flight,
\* state.containers is the browser's set of containers, and so is the cache
\* of ContainerService unless it is null.
C23_Consistent ==
    inflight = <<>> =>
        /\ known = containers
        /\ svc.valid => svc.containers = containers

===========================================================================
